---- MODULE Spec2Model ----
(***************************************************************************)
(* The notation transformation engine of the tansen backend:               *)
(*   app/services/transposition_service.py  (TranspositionService)         *)
(*   app/services/notation_service.py       (NotationService)              *)
(*                                                                         *)
(* A Python str is a sequence of one-character strings, so that indexing,  *)
(* slicing, len() and formatting an int are modelled by what they do.      *)
(* A Python dict is a function whose DOMAIN is its set of keys.            *)
(* A call that raises returns [raised |-> TRUE, ...].                      *)
(***************************************************************************)
EXTENDS Integers, Sequences, FiniteSets

(***************************************************************************)
(* Bounds of the model.                                                    *)
(***************************************************************************)
\* highest octave of an input pitch (MIDI 127 is octave 9; one transposition
\* upwards from there reaches octave 10)
MaxOctave == 10
\* semitone deltas of transpose_pitch range over -MaxDelta..MaxDelta
MaxDelta == 24
\* number of successive transpose_pitch calls on one pitch
MaxSteps == 2
\* number of notes in a batch
MaxNotes == 2
\* number of successive transpose_notes calls on one batch
MaxCalls == 2
MaxJobs == 11
MaxTaskJobs == 3
MaxTicks == 2

(***************************************************************************)
(* Python built-ins used by the services.                                  *)
(***************************************************************************)
Digits == <<"0", "1", "2", "3", "4", "5", "6", "7", "8", "9">>

\* str.isdigit() of a one-character string
isdigit(c) == \E d \in 1..10 : Digits[d] = c

\* int(c) of a one-character string for which isdigit(c) holds
int(c) == (CHOOSE d \in 1..10 : Digits[d] = c) - 1

RECURSIVE NatStr(_)
NatStr(n) == IF n < 10 THEN <<Digits[n + 1]>>
             ELSE NatStr(n \div 10) \o <<Digits[(n % 10) + 1]>>

\* f"{n}" of an int: decimal digits, with a leading minus sign when negative
str(n) == IF n < 0 THEN <<"-">> \o NatStr(0 - n) ELSE NatStr(n)

\* list.index(x), 0-based; NotFound stands for the ValueError it raises
NotFound == 0 - 1
index(list, x) == IF \E i \in 1..Len(list) : list[i] = x
                  THEN (CHOOSE i \in 1..Len(list) :
                          list[i] = x /\ \A j \in 1..(i - 1) : list[j] # x) - 1
                  ELSE NotFound

\* dict.get(key, default)
get(d, key, default) == IF key \in DOMAIN d THEN d[key] ELSE default

\* d[key] = value on a copy of d
setitem(d, key, value) ==
    [k \in (DOMAIN d) \cup {key} |-> IF k = key THEN value ELSE d[k]]

(***************************************************************************)
(* TranspositionService: class tables.                                     *)
(***************************************************************************)
NOTE_NAMES ==
    << <<"C">>, <<"C", "#">>, <<"D">>, <<"D", "#">>, <<"E">>, <<"F">>,
       <<"F", "#">>, <<"G">>, <<"G", "#">>, <<"A">>, <<"A", "#">>, <<"B">> >>

NOTE_NAMES_FLAT ==
    << <<"C">>, <<"D", "b">>, <<"D">>, <<"E", "b">>, <<"E">>, <<"F">>,
       <<"G", "b">>, <<"G">>, <<"A", "b">>, <<"A">>, <<"B", "b">>, <<"B">> >>

\* flat_to_sharp.get(key, key)
_normalize_key(key) ==
    CASE key = <<"D", "b">> -> <<"C", "#">>
      [] key = <<"E", "b">> -> <<"D", "#">>
      [] key = <<"G", "b">> -> <<"F", "#">>
      [] key = <<"A", "b">> -> <<"G", "#">>
      [] key = <<"B", "b">> -> <<"A", "#">>
      [] OTHER -> key

\* try: NOTE_NAMES.index(k)  except ValueError: NOTE_NAMES_FLAT.index(k)
key_pos(k) == IF index(NOTE_NAMES, k) # NotFound THEN index(NOTE_NAMES, k)
              ELSE index(NOTE_NAMES_FLAT, k)

Mut_semitone_difference_minimal(from_key, to_key) ==
    LET from_pos == key_pos(_normalize_key(from_key))
        to_pos   == key_pos(_normalize_key(to_key))
    IN  IF from_pos = NotFound \/ to_pos = NotFound
        THEN [raised |-> TRUE, value |-> 0]
        ELSE [raised |-> FALSE, value |-> (to_pos - from_pos + 12) % 12]

Mut_semitone_difference_lenient(from_key, to_key) ==
    LET from_pos == key_pos(_normalize_key(from_key))
        to_pos   == key_pos(_normalize_key(to_key))
    IN  [raised |-> FALSE,
         value  |-> (IF to_pos = NotFound THEN 0 ELSE to_pos)
                    - (IF from_pos = NotFound THEN 0 ELSE from_pos)]

calculate_semitone_difference(from_key, to_key) ==
    LET from_pos == key_pos(_normalize_key(from_key))
        to_pos   == key_pos(_normalize_key(to_key))
    IN  IF from_pos = NotFound \/ to_pos = NotFound
        THEN [raised |-> TRUE, value |-> 0]
        ELSE [raised |-> FALSE, value |-> to_pos - from_pos]

\* the parse step of transpose_pitch (lines 75-85): the class name and the
\* octave digit, or ok = FALSE where the code returns the pitch unchanged
parse_pitch(pitch) ==
    IF Len(pitch) < 2 THEN [ok |-> FALSE, note_name |-> <<>>, octave |-> 0]
    ELSE IF isdigit(pitch[2])
         THEN [ok |-> TRUE, note_name |-> <<pitch[1]>>, octave |-> int(pitch[2])]
    ELSE IF Len(pitch) >= 3 /\ isdigit(pitch[3])
         THEN [ok |-> TRUE, note_name |-> SubSeq(pitch, 1, 2),
               octave |-> int(pitch[3])]
    ELSE [ok |-> FALSE, note_name |-> <<>>, octave |-> 0]

\* the two while loops of transpose_pitch (lines 104-110)
RECURSIVE wrap(_, _)
wrap(new_pos, octave_change) ==
    IF new_pos < 0 THEN wrap(new_pos + 12, octave_change - 1)
    ELSE IF new_pos >= 12 THEN wrap(new_pos - 12, octave_change + 1)
    ELSE [new_pos |-> new_pos, octave_change |-> octave_change]

transpose_pitch(pitch, semitones) ==
    LET parsed == parse_pitch(pitch)
        note_pos == key_pos(_normalize_key(parsed.note_name))
        w == wrap(note_pos + semitones, 0)
    IN  IF ~parsed.ok THEN pitch
        ELSE IF note_pos = NotFound THEN pitch
        ELSE NOTE_NAMES[w.new_pos + 1] \o str(parsed.octave + w.octave_change)

\* the body of the loop of transpose_notes (lines 144-159): the note appended
transposed_note(note, semitone_diff) ==
    LET original_pitch == get(note, "pitch", <<>>)
        transposed_pitch == transpose_pitch(original_pitch, semitone_diff)
        with_pitch == setitem(note, "pitch", transposed_pitch)
    IN  IF original_pitch = <<>> THEN note
        ELSE IF "pitchMidi" \in DOMAIN note
             THEN setitem(with_pitch, "pitchMidi", note.pitchMidi + semitone_diff)
             ELSE with_pitch

\* the loop with a bare `continue` for a note without pitch
RECURSIVE Mut_transpose_loop_drops_unpitched(_, _, _, _)
Mut_transpose_loop_drops_unpitched(notes, semitone_diff, i, transposed_notes) ==
    IF i > Len(notes) THEN transposed_notes
    ELSE Mut_transpose_loop_drops_unpitched(notes, semitone_diff, i + 1,
            IF get(notes[i], "pitch", <<>>) = <<>> THEN transposed_notes
            ELSE Append(transposed_notes,
                        transposed_note(notes[i], semitone_diff)))

\* for note in notes: ... transposed_notes.append(...)
RECURSIVE transpose_loop(_, _, _, _)
transpose_loop(notes, semitone_diff, i, transposed_notes) ==
    IF i > Len(notes) THEN transposed_notes
    ELSE transpose_loop(notes, semitone_diff, i + 1,
                        Append(transposed_notes,
                               transposed_note(notes[i], semitone_diff)))

\* adjustments that lower every pitch by a semitone
Mut_minor_adjustments_lower(notes, key) == transpose_loop(notes, 0 - 1, 1, <<>>)

\* _apply_minor_scale_adjustments (lines 185-205): returns its notes as given
_apply_minor_scale_adjustments(notes, key) == notes

transpose_notes(notes, from_key, to_key, mode) ==
    LET diff == calculate_semitone_difference(from_key, to_key)
        transposed_notes == transpose_loop(notes, diff.value, 1, <<>>)
    IN  IF diff.raised THEN [raised |-> TRUE, value |-> <<>>]
        ELSE [raised |-> FALSE,
              value |-> IF mode = "minor"
                        THEN _apply_minor_scale_adjustments(transposed_notes, to_key)
                        ELSE transposed_notes]

\* the zip loop of validate_transposition (lines 230-246)
RECURSIVE validate_loop(_, _, _, _)
validate_loop(original_notes, transposed_notes, semitones, i) ==
    IF i > Len(original_notes) THEN TRUE
    ELSE LET orig_pitch == get(original_notes[i], "pitch", <<>>)
             trans_pitch == get(transposed_notes[i], "pitch", <<>>)
         IN  IF orig_pitch = <<>> \/ trans_pitch = <<>>
             THEN validate_loop(original_notes, transposed_notes, semitones, i + 1)
             ELSE IF transpose_pitch(trans_pitch, 0 - semitones) # orig_pitch
                  THEN FALSE
                  ELSE validate_loop(original_notes, transposed_notes,
                                     semitones, i + 1)

validate_transposition(original_notes, transposed_notes, semitones) ==
    IF Len(original_notes) # Len(transposed_notes) THEN FALSE
    ELSE validate_loop(original_notes, transposed_notes, semitones, 1)

(***************************************************************************)
(* NotationService.                                                        *)
(* FLAT_SIGN and SHARP_SIGN stand for the one-character strings U+266D and *)
(* U+266F of the Hindustani table.                                         *)
(***************************************************************************)
UpperCase == <<"A", "B", "C", "D", "E", "F", "G", "H", "I", "J", "K", "L", "M",
               "N", "O", "P", "Q", "R", "S", "T", "U", "V", "W", "X", "Y", "Z">>
LowerCase == <<"a", "b", "c", "d", "e", "f", "g", "h", "i", "j", "k", "l", "m",
               "n", "o", "p", "q", "r", "s", "t", "u", "v", "w", "x", "y", "z">>

\* str.lower()
lower(text) ==
    [i \in 1..Len(text) |->
        IF \E u \in 1..26 : UpperCase[u] = text[i]
        THEN LowerCase[CHOOSE u \in 1..26 : UpperCase[u] = text[i]]
        ELSE text[i]]

\* the values of HINDUSTANI_SARGAM_MAP, in the order of its keys C, C#, ... B
HINDUSTANI_SARGAM_MAP ==
    << <<"S", "a">>, <<"R", "e", "FLAT_SIGN">>, <<"R", "e">>,
       <<"G", "a", "FLAT_SIGN">>, <<"G", "a">>, <<"M", "a">>,
       <<"M", "a", "SHARP_SIGN">>, <<"P", "a">>, <<"D", "h", "a", "FLAT_SIGN">>,
       <<"D", "h", "a">>, <<"N", "i", "FLAT_SIGN">>, <<"N", "i">> >>

CARNATIC_SARGAM_MAP ==
    << <<"S">>, <<"R", "1">>, <<"R", "2">>, <<"G", "1">>, <<"G", "2">>,
       <<"M", "1">>, <<"M", "2">>, <<"P">>, <<"D", "1">>, <<"D", "2">>,
       <<"N", "1">>, <<"N", "2">> >>

\* sargam_map.get(note_name, 'Sa'): both maps have the 12 sharp names as keys
sargam_get(sargam_map, note_name) ==
    IF index(NOTE_NAMES, note_name) # NotFound
    THEN sargam_map[index(NOTE_NAMES, note_name) + 1]
    ELSE <<"S", "a">>

\* the octave indicators without the apostrophe of the upper octaves
Mut_octave_marked_no_apostrophe(sargam_note, octave) ==
    IF octave < 4 THEN lower(sargam_note) ELSE sargam_note

\* the octave indicators of convert_to_sargam (lines 92-98)
octave_marked(sargam_note, octave) ==
    IF octave < 4 THEN lower(sargam_note)
    ELSE IF octave > 4 THEN sargam_note \o <<"'">>
    ELSE sargam_note

\* the parse step with a default octave instead of the second `continue`
Mut_sargam_parse_default_octave(pitch_) ==
    IF Len(pitch_) < 2 THEN [ok |-> FALSE, note_name |-> <<>>, octave |-> 0]
    ELSE IF isdigit(pitch_[2])
         THEN [ok |-> TRUE, note_name |-> <<pitch_[1]>>, octave |-> int(pitch_[2])]
    ELSE IF Len(pitch_) >= 3 /\ isdigit(pitch_[3])
         THEN [ok |-> TRUE, note_name |-> SubSeq(pitch_, 1, 2),
               octave |-> int(pitch_[3])]
    ELSE [ok |-> TRUE, note_name |-> pitch_, octave |-> 4]

\* the parse step of convert_to_sargam (lines 73-83)
sargam_parse(pitch_) ==
    IF Len(pitch_) < 2 THEN [ok |-> FALSE, note_name |-> <<>>, octave |-> 0]
    ELSE IF isdigit(pitch_[2])
         THEN [ok |-> TRUE, note_name |-> <<pitch_[1]>>, octave |-> int(pitch_[2])]
    ELSE IF Len(pitch_) >= 3 /\ isdigit(pitch_[3])
         THEN [ok |-> TRUE, note_name |-> SubSeq(pitch_, 1, 2),
               octave |-> int(pitch_[3])]
    ELSE [ok |-> FALSE, note_name |-> <<>>, octave |-> 0]

\* the body of the loop giving every entry the default velocity
Mut_sargam_entries_default_velocity(note, style) ==
    LET parsed == sargam_parse(get(note, "pitch", <<>>))
        sargam_map == IF style = "hindustani" THEN HINDUSTANI_SARGAM_MAP
                      ELSE CARNATIC_SARGAM_MAP
    IN  IF ~parsed.ok THEN <<>>
        ELSE << [note      |-> octave_marked(sargam_get(sargam_map, parsed.note_name),
                                             parsed.octave),
                 startTime |-> get(note, "startTime", 0),
                 duration  |-> get(note, "duration", 0),
                 velocity  |-> 64] >>

\* the body of the loop of convert_to_sargam: the entries it appends for one
\* note (none when the note is skipped)
sargam_entries(note, style) ==
    LET parsed == sargam_parse(get(note, "pitch", <<>>))
        sargam_map == IF style = "hindustani" THEN HINDUSTANI_SARGAM_MAP
                      ELSE CARNATIC_SARGAM_MAP
    IN  IF ~parsed.ok THEN <<>>
        ELSE << [note      |-> octave_marked(sargam_get(sargam_map, parsed.note_name),
                                             parsed.octave),
                 startTime |-> get(note, "startTime", 0),
                 duration  |-> get(note, "duration", 0),
                 velocity  |-> get(note, "velocity", 64)] >>

RECURSIVE sargam_loop(_, _, _, _)
sargam_loop(notes, style, i, sargam_notes) ==
    IF i > Len(notes) THEN sargam_notes
    ELSE sargam_loop(notes, style, i + 1,
                     sargam_notes \o sargam_entries(notes[i], style))

convert_to_sargam(notes, style, base_key) == sargam_loop(notes, style, 1, <<>>)

\* the parse step accepting one-character note names only
Mut_western_parse_one_char_name(pitch_) ==
    IF Len(pitch_) < 2 THEN [ok |-> FALSE, note_name |-> <<>>, octave |-> 0]
    ELSE IF isdigit(pitch_[2])
         THEN [ok |-> TRUE, note_name |-> <<pitch_[1]>>, octave |-> int(pitch_[2])]
    ELSE [ok |-> FALSE, note_name |-> <<>>, octave |-> 0]

\* the parse step of convert_to_western (lines 133-143)
western_parse(pitch_) ==
    IF Len(pitch_) < 2 THEN [ok |-> FALSE, note_name |-> <<>>, octave |-> 0]
    ELSE IF isdigit(pitch_[2])
         THEN [ok |-> TRUE, note_name |-> <<pitch_[1]>>, octave |-> int(pitch_[2])]
    ELSE IF Len(pitch_) >= 3 /\ isdigit(pitch_[3])
         THEN [ok |-> TRUE, note_name |-> SubSeq(pitch_, 1, 2),
               octave |-> int(pitch_[3])]
    ELSE [ok |-> FALSE, note_name |-> <<>>, octave |-> 0]

\* the body of the loop emitting the note name as the pitch
Mut_western_entries_name_as_pitch(note) ==
    LET original == get(note, "pitch", <<>>)
        parsed == western_parse(original)
    IN  IF ~parsed.ok THEN <<>>
        ELSE << [pitch     |-> parsed.note_name,
                 noteName  |-> parsed.note_name,
                 octave    |-> parsed.octave,
                 startTime |-> get(note, "startTime", 0),
                 duration  |-> get(note, "duration", 0),
                 velocity  |-> get(note, "velocity", 64)] >>

\* the body of the loop of convert_to_western
western_entries(note) ==
    LET original == get(note, "pitch", <<>>)
        parsed == western_parse(original)
    IN  IF ~parsed.ok THEN <<>>
        ELSE << [pitch     |-> original,
                 noteName  |-> parsed.note_name,
                 octave    |-> parsed.octave,
                 startTime |-> get(note, "startTime", 0),
                 duration  |-> get(note, "duration", 0),
                 velocity  |-> get(note, "velocity", 64)] >>

RECURSIVE western_loop(_, _, _)
western_loop(notes, i, western_notes) ==
    IF i > Len(notes) THEN western_notes
    ELSE western_loop(notes, i + 1, western_notes \o western_entries(notes[i]))

convert_to_western(notes) ==
    [format        |-> "western",
     notes         |-> western_loop(notes, 1, <<>>),
     timeSignature |-> "4/4",
     keySignature  |-> "C"]

\* the loop appending nothing for a note with an empty pitch
RECURSIVE Mut_alphabetical_loop_skips_empty(_, _, _)
Mut_alphabetical_loop_skips_empty(notes, i, alphabetical_notes) ==
    IF i > Len(notes) THEN alphabetical_notes
    ELSE Mut_alphabetical_loop_skips_empty(
             notes, i + 1,
             IF get(notes[i], "pitch", <<>>) = <<>> THEN alphabetical_notes
             ELSE Append(alphabetical_notes,
                         [note      |-> get(notes[i], "pitch", <<>>),
                          startTime |-> get(notes[i], "startTime", 0),
                          duration  |-> get(notes[i], "duration", 0),
                          velocity  |-> get(notes[i], "velocity", 64)]))

\* the loop of convert_to_alphabetical (lines 180-188)
RECURSIVE alphabetical_loop(_, _, _)
alphabetical_loop(notes, i, alphabetical_notes) ==
    IF i > Len(notes) THEN alphabetical_notes
    ELSE alphabetical_loop(
             notes, i + 1,
             Append(alphabetical_notes,
                    [note      |-> get(notes[i], "pitch", <<>>),
                     startTime |-> get(notes[i], "startTime", 0),
                     duration  |-> get(notes[i], "duration", 0),
                     velocity  |-> get(notes[i], "velocity", 64)]))

convert_to_alphabetical(notes) == alphabetical_loop(notes, 1, <<>>)

\* the values of NotationFormat
NotationFormat == {"sargam", "western", "alphabetical"}

\* convert_notes with anything but sargam and alphabetical taken as western
Mut_convert_notes_western_otherwise(notes, format, sargam_style) ==
    IF format = "sargam"
    THEN [raised |-> FALSE,
          value  |-> [format |-> "sargam", style |-> sargam_style,
                      notes  |-> convert_to_sargam(notes, sargam_style, <<"C">>)]]
    ELSE IF format = "alphabetical"
    THEN [raised |-> FALSE,
          value  |-> [format |-> "alphabetical",
                      notes  |-> convert_to_alphabetical(notes)]]
    ELSE [raised |-> FALSE, value |-> convert_to_western(notes)]

\* convert_notes: raised stands for the ValueError of the last branch
convert_notes(notes, format, sargam_style) ==
    IF format = "sargam"
    THEN [raised |-> FALSE,
          value  |-> [format |-> "sargam", style |-> sargam_style,
                      notes  |-> convert_to_sargam(notes, sargam_style, <<"C">>)]]
    ELSE IF format = "western"
    THEN [raised |-> FALSE, value |-> convert_to_western(notes)]
    ELSE IF format = "alphabetical"
    THEN [raised |-> FALSE,
          value  |-> [format |-> "alphabetical",
                      notes  |-> convert_to_alphabetical(notes)]]
    ELSE [raised |-> TRUE, value |-> <<>>]

(***************************************************************************)
(* TranscriptionService: MIDI pitch numbers and note names.                *)
(***************************************************************************)
\* _midi_to_note_name (lines 168-181); its note_names is NOTE_NAMES
_midi_to_note_name(midi_pitch) ==
    LET octave == (midi_pitch \div 12) - 1
        note == NOTE_NAMES[(midi_pitch % 12) + 1]
    IN  note \o str(octave)

\* _note_name_to_midi (lines 183-207): raised stands for the ValueError of
\* the length test and of int(), and for the KeyError of note_names[note]
_note_name_to_midi(note_name) ==
    LET long == Len(note_name) = 3
        note == IF long THEN SubSeq(note_name, 1, 2) ELSE <<note_name[1]>>
        digit == IF long THEN note_name[3] ELSE note_name[2]
    IN  IF Len(note_name) # 2 /\ Len(note_name) # 3
        THEN [raised |-> TRUE, value |-> 0]
        ELSE IF ~isdigit(digit) THEN [raised |-> TRUE, value |-> 0]
        ELSE IF index(NOTE_NAMES, note) = NotFound
        THEN [raised |-> TRUE, value |-> 0]
        ELSE [raised |-> FALSE,
              value |-> (int(digit) + 1) * 12 + index(NOTE_NAMES, note)]

(***************************************************************************)
(* One iteration of the loops, on a note list that other calls may hold    *)
(* too.  A call is [op, from_key, to_key, mode, style]; the result is the  *)
(* note list as the iteration leaves it and the entries it appends to the  *)
(* local output list.                                                      *)
(***************************************************************************)
\* the iteration of transpose_notes writing into the note instead of a copy
Mut_loop_body_in_place(call, notes, i, semitone_diff) ==
    IF call.op = "transpose_notes"
    THEN [notes    |-> [notes EXCEPT ![i] = transposed_note(notes[i], semitone_diff)],
          appended |-> <<transposed_note(notes[i], semitone_diff)>>]
    ELSE IF call.op = "convert_to_sargam"
    THEN [notes |-> notes, appended |-> sargam_entries(notes[i], call.style)]
    ELSE IF call.op = "convert_to_western"
    THEN [notes |-> notes, appended |-> western_entries(notes[i])]
    ELSE [notes |-> notes, appended |-> alphabetical_loop(<<notes[i]>>, 1, <<>>)]

\* transposition_service.py:144-159 (note.copy() is what gets written to),
\* notation_service.py:69-105, 129-152, 180-188 (new dicts are appended)
loop_body(call, notes, i, semitone_diff) ==
    IF call.op = "transpose_notes"
    THEN [notes    |-> notes,
          appended |-> <<transposed_note(notes[i], semitone_diff)>>]
    ELSE IF call.op = "convert_to_sargam"
    THEN [notes |-> notes, appended |-> sargam_entries(notes[i], call.style)]
    ELSE IF call.op = "convert_to_western"
    THEN [notes |-> notes, appended |-> western_entries(notes[i])]
    ELSE [notes |-> notes, appended |-> alphabetical_loop(<<notes[i]>>, 1, <<>>)]

\* what a call returns once its loop has ended with the local list out
loop_result(call, out) ==
    IF call.op = "transpose_notes"
    THEN (IF call.mode = "minor"
          THEN _apply_minor_scale_adjustments(out, call.to_key) ELSE out)
    ELSE IF call.op = "convert_to_western"
    THEN [format |-> "western", notes |-> out, timeSignature |-> "4/4",
          keySignature |-> "C"]
    ELSE out

(***************************************************************************)
(* The handler get_transcription of api/v1/transcriptions.py.              *)
(***************************************************************************)
HTTP_200_OK == 200
HTTP_400_BAD_REQUEST == 400
HTTP_403_FORBIDDEN == 403
HTTP_404_NOT_FOUND == 404
HTTP_500_INTERNAL_SERVER_ERROR == 500

\* NotationFormat(value): the member with that value, or ValueError
NotationFormatValue(value) ==
    IF value = <<"s", "a", "r", "g", "a", "m">>
    THEN [raised |-> FALSE, value |-> "sargam"]
    ELSE IF value = <<"w", "e", "s", "t", "e", "r", "n">>
    THEN [raised |-> FALSE, value |-> "western"]
    ELSE IF value = <<"a", "l", "p", "h", "a", "b", "e", "t", "i", "c", "a", "l">>
    THEN [raised |-> FALSE, value |-> "alphabetical"]
    ELSE [raised |-> TRUE, value |-> "none"]

\* SargamStyle(value): the member with that value, or ValueError
SargamStyleValue(value) ==
    IF value = <<"h", "i", "n", "d", "u", "s", "t", "a", "n", "i">>
    THEN [raised |-> FALSE, value |-> "hindustani"]
    ELSE IF value = <<"c", "a", "r", "n", "a", "t", "i", "c">>
    THEN [raised |-> FALSE, value |-> "carnatic"]
    ELSE [raised |-> TRUE, value |-> "none"]

\* the fields the model Note requires of a note (models/transcription.py)
NoteRequired == {"pitch", "start_time", "duration"}

\* the fields the model Chord requires of a chord
ChordRequired == {"name", "start_time", "duration"}

\* NotationData(notes=..., chords=...) raises ValidationError unless every
\* note and every chord has the required fields
NotationData(notes, chords) ==
    IF /\ \A i \in 1..Len(notes) : NoteRequired \subseteq DOMAIN notes[i]
       /\ \A i \in 1..Len(chords) : ChordRequired \subseteq DOMAIN chords[i]
    THEN [raised |-> FALSE, value |-> [notes |-> notes, chords |-> chords]]
    ELSE [raised |-> TRUE, value |-> [notes |-> <<>>, chords |-> <<>>]]

\* an HTTPException
HTTPException(status_code) ==
    [status_code |-> status_code, notes |-> <<>>, chords |-> <<>>]

\* get_transcription (lines 391-507).  req holds the arguments and what the
\* handler reads: exists (the transcription document), owner (its userId is
\* the caller), song_exists, is_public, notes and chords (of notationData),
\* original_key (of the song; 'C' without a song) and format, scale and
\* sargam_style of the query; scale = '' stands for None as well.  Every
\* exception that is no HTTPException becomes HTTP 500 (lines 502-507).
get_transcription(req) ==
    LET original_key == IF req.song_exists THEN req.original_key ELSE <<"C">>
        transposes == req.scale # <<>> /\ req.scale # original_key
        transposed == transpose_notes(req.notes, original_key, req.scale, "major")
        notes == IF transposes THEN transposed.value ELSE req.notes
        notation_format == NotationFormatValue(lower(req.format))
        style == SargamStyleValue(lower(req.sargam_style))
        sargam_style_enum == IF style.raised THEN "hindustani" ELSE style.value
        converted_notation == convert_notes(notes, notation_format.value,
                                            sargam_style_enum)
        notation_data == NotationData(converted_notation.value.notes, req.chords)
    IN  IF ~req.exists THEN HTTPException(HTTP_404_NOT_FOUND)
        ELSE IF ~req.owner /\ ~(req.song_exists /\ req.is_public)
        THEN HTTPException(HTTP_403_FORBIDDEN)
        ELSE IF req.notes = <<>> THEN HTTPException(HTTP_404_NOT_FOUND)
        ELSE IF transposes /\ transposed.raised
        THEN HTTPException(HTTP_500_INTERNAL_SERVER_ERROR)
        ELSE IF notation_format.raised THEN HTTPException(HTTP_400_BAD_REQUEST)
        ELSE IF notation_data.raised
        THEN HTTPException(HTTP_500_INTERNAL_SERVER_ERROR)
        ELSE [status_code |-> HTTP_200_OK, notes |-> notation_data.value.notes,
              chords |-> notation_data.value.chords]

(***************************************************************************)
(* The rate limiter (core/rate_limiter.py) and its settings (config.py).   *)
(* Time is counted in hours.  A sorted set is the sequence of its scores   *)
(* in the order they were added: its members are the timestamps written   *)
(* out, which differ from one request to the next.                         *)
(***************************************************************************)
rate_limit_transcriptions_per_day == 10
rate_limit_max_concurrent_jobs == 2

\* 24 * 3600 seconds
DayHours == 24

max(a, b) == IF a >= b THEN a ELSE b

\* the Redis commands the limiter uses
InRange(score, lo, hi) == lo <= score /\ score <= hi

RECURSIVE zremrangebyscore(_, _, _)
zremrangebyscore(zset, lo, hi) ==
    IF zset = <<>> THEN <<>>
    ELSE (IF InRange(Head(zset), lo, hi) THEN <<>> ELSE <<Head(zset)>>)
         \o zremrangebyscore(Tail(zset), lo, hi)

zcard(zset) == Len(zset)
zadd(zset, score) == Append(zset, score)
scard(members) == Cardinality(members)

\* check_transcription_rate_limit (lines 15-49): the sorted set as it leaves
\* it, whether it raises RateLimitError, and the pair it returns otherwise
check_transcription_rate_limit(zset, now_) ==
    LET window_start == now_ - DayHours
        kept == zremrangebyscore(zset, 0, window_start)
        request_count == zcard(kept)
        limit == rate_limit_transcriptions_per_day
        remaining == max(0, limit - request_count)
    IN  [zset   |-> kept,
         raised |-> request_count >= limit,
         value  |-> <<TRUE, remaining>>]

\* increment_transcription_count (lines 52-68): the sorted set after zadd
increment_transcription_count(zset, now_) == zadd(zset, now_)

\* the key expires 24 hours after the last increment (line 68)
expired(zset, now_) ==
    IF zset # <<>> /\ now_ - zset[Len(zset)] >= DayHours THEN <<>> ELSE zset

\* check_concurrent_jobs (lines 71-99): whether it raises ValidationError,
\* and the pair it returns otherwise
check_concurrent_jobs(active) ==
    LET active_count == scard(active)
        max_concurrent == rate_limit_max_concurrent_jobs
    IN  [raised |-> active_count >= max_concurrent,
         value  |-> <<TRUE, active_count>>]

HTTP_429_TOO_MANY_REQUESTS == 429
HTTP_503_SERVICE_UNAVAILABLE == 503

(***************************************************************************)
(* Inputs.                                                                 *)
(***************************************************************************)
Letters == {"A", "B", "C", "D", "E", "F", "G"}
SharpOpt == {<<>>, <<"#">>}

\* the lowest octave the transcription service emits: _midi_to_note_name(0)
MinOctave == (0 \div 12) - 1

\* a valid pitch: a letter A-G, an optional '#', an integer octave
ValidPitches ==
    {<<l>> \o a \o str(o) : l \in Letters, a \in SharpOpt, o \in MinOctave..MaxOctave}

\* flat-spelled pitches
FlatPitches ==
    {<<l>> \o <<"b">> \o str(o) : l \in {"D", "E", "G", "A", "B"},
                                  o \in MinOctave..MaxOctave}

\* malformed pitches: empty, no digit octave, unrecognized letter
MalformedPitches ==
    { <<>>, <<"C">>, <<"4">>, <<"C", "#">>, <<"C", "x">>, <<"C", "#", "x">>,
      <<"H", "4">>, <<"H", "#", "4">>, <<"c", "4">>, <<"C", "b", "4">> }

PitchInputs == ValidPitches \cup FlatPitches \cup MalformedPitches

Deltas == (0 - MaxDelta)..MaxDelta

\* the 12 canonical names and the 5 flat aliases
RecognisedKeys ==
    { <<"C">>, <<"C", "#">>, <<"D">>, <<"D", "#">>, <<"E">>, <<"F">>,
      <<"F", "#">>, <<"G">>, <<"G", "#">>, <<"A">>, <<"A", "#">>, <<"B">>,
      <<"D", "b">>, <<"E", "b">>, <<"G", "b">>, <<"A", "b">>, <<"B", "b">> }

InvalidKeys ==
    { <<>>, <<"H">>, <<"c">>, <<"C", "b">>, <<"E", "#">>, <<"F", "b">>,
      <<"C", "4">>, <<"d", "b">>, <<"C", "#", "#">> }

KeyInputs == RecognisedKeys \cup InvalidKeys

Modes == {"major", "minor"}

\* notes as the transcription service stores them, and notes lacking fields
NoteA0 == [pitch |-> <<"A", "0">>, pitchMidi |-> 21, startTime |-> 0,
           duration |-> 1, velocity |-> 80]
NoteC4 == [pitch |-> <<"C", "4">>, pitchMidi |-> 60, startTime |-> 0,
           duration |-> 2, velocity |-> 80]
NoteG9 == [pitch |-> <<"G", "9">>, startTime |-> 0, duration |-> 1,
           velocity |-> 100]
NoteEmptyPitch == [pitch |-> <<>>, pitchMidi |-> 60, startTime |-> 0,
                   duration |-> 1, velocity |-> 80]
NoteNoPitch == [pitchMidi |-> 61, startTime |-> 0, duration |-> 1]
NoteH4 == [pitch |-> <<"H", "4">>, pitchMidi |-> 1, startTime |-> 0,
           duration |-> 3, velocity |-> 64]

NoteKinds == <<NoteA0, NoteC4, NoteG9, NoteEmptyPitch, NoteNoPitch, NoteH4>>

\* the batch whose i-th note is of kind ks[i] and starts at time i
Batch(ks) == [i \in 1..Len(ks) |-> setitem(NoteKinds[ks[i]], "startTime", i)]

KindSeqs(n) == UNION {[1..k -> 1..Len(NoteKinds)] : k \in 0..n}

Batches == {Batch(ks) : ks \in KindSeqs(MaxNotes)}

\* the keys of the chained calls: two valid keys, eleven semitones apart, and
\* an invalid one
BatchKeys == { <<"C">>, <<"B">>, <<"H">> }

\* the batches of the calls that vary the keys
KeyBatches == {Batch(<<>>), Batch(<<2>>), Batch(<<1, 4>>)}

\* the notes and semitone arguments given to validate_transposition
ValidateKinds ==
    << [pitch |-> <<"C", "4">>], [pitch |-> <<"D", "4">>], [pitch |-> <<"B", "3">>],
       [pitch |-> <<>>], [startTime |-> 0] >>

ValidateLists ==
    UNION {[1..k -> {ValidateKinds[j] : j \in 1..Len(ValidateKinds)}] :
             k \in 0..MaxNotes}

ValidateDeltas == {0 - 2, 0 - 1, 0, 1, 2}

\* the keys of the transpositions that are validated
ValidateKeys == { <<"C">>, <<"G">>, <<"B">> }

\* the notes given to the converters
ConvertKinds ==
    << [pitch |-> <<"C", "4">>, startTime |-> 0, duration |-> 1, velocity |-> 80],
       [pitch |-> <<"C", "#", "3">>, startTime |-> 0, duration |-> 2,
        velocity |-> 90],
       [pitch |-> <<"D", "5">>, startTime |-> 0, duration |-> 1],
       [pitch |-> <<"D", "b", "4">>, startTime |-> 0, duration |-> 1,
        velocity |-> 80],
       [pitch |-> <<"H", "4">>, startTime |-> 0, duration |-> 1, velocity |-> 80],
       [pitch |-> <<>>, startTime |-> 0, duration |-> 1, velocity |-> 80],
       [pitch |-> <<"C", "#">>, startTime |-> 0, duration |-> 1, velocity |-> 80],
       [pitch |-> <<"B", "-", "1">>, startTime |-> 0, duration |-> 1,
        velocity |-> 80],
       [pitch |-> <<"A", "1", "0">>, startTime |-> 0, duration |-> 1,
        velocity |-> 80] >>

\* the lists of up to MaxNotes of these notes, the i-th starting at time i,
\* and the one-note lists of every pitch string
ConvertBatches ==
    {[i \in 1..Len(ks) |-> setitem(ConvertKinds[ks[i]], "startTime", i)] :
       ks \in UNION {[1..k -> 1..Len(ConvertKinds)] : k \in 0..MaxNotes}}
    \cup {<<[pitch |-> p, startTime |-> 1, duration |-> 2, velocity |-> 70]>> :
            p \in PitchInputs}

Styles == {"hindustani", "carnatic"}

\* the format arguments of convert_notes: the three formats and another value
FormatInputs == NotationFormat \cup {"tablature"}

\* the MIDI pitch numbers (transcription_service.py:174)
MaxMidi == 127
MidiPitches == 0..MaxMidi

\* the requests of one user that are being handled at the same time, and the
\* hours between two readings of the clock that differ
Handlers == {1, 2}
TickHours == 12

\* the note lists concurrent calls share, the calls, and the threads
SharedBatches == {Batch(<<2>>), Batch(<<1, 4>>), Batch(<<2, 6>>), Batch(<<5, 3>>)}

ThreadCalls ==
    [op : {"transpose_notes"}, from_key : {<<"C">>}, to_key : {<<"B">>},
     mode : Modes, style : {"hindustani"}]
    \cup [op : {"convert_to_sargam"}, from_key : {<<>>}, to_key : {<<>>},
          mode : {"major"}, style : Styles]
    \cup [op : {"convert_to_western", "convert_to_alphabetical"},
          from_key : {<<>>}, to_key : {<<>>}, mode : {"major"},
          style : {"hindustani"}]

Threads == {1, 2}

\* the requests given to get_transcription
RequestNotes ==
    { <<>>, <<NoteC4>>, <<NoteEmptyPitch>>, <<NoteC4, NoteG9>> }

\* the stored chords: none (all the transcription task stores) and one chord
RequestChords ==
    { <<>>, <<[name |-> "Cmaj7", start_time |-> 0, duration |-> 1]>> }

RequestOriginalKeys == { <<"C">>, <<"G">> }

RequestScales == { <<>>, <<"C">>, <<"G">>, <<"H">> }

RequestFormats ==
    { <<"w", "e", "s", "t", "e", "r", "n">>,
      <<"S", "a", "r", "g", "a", "m">>,
      <<"a", "l", "p", "h", "a", "b", "e", "t", "i", "c", "a", "l">>,
      <<"t", "a", "b", "l", "a", "t", "u", "r", "e">> }

RequestStyles ==
    { <<"h", "i", "n", "d", "u", "s", "t", "a", "n", "i">>,
      <<"c", "a", "r", "n", "a", "t", "i", "c">>,
      <<"d", "h", "r", "u", "p", "a", "d">> }

Requests ==
    [exists : BOOLEAN, owner : BOOLEAN, song_exists : BOOLEAN,
     is_public : BOOLEAN, notes : RequestNotes, chords : RequestChords,
     original_key : RequestOriginalKeys, format : RequestFormats,
     scale : RequestScales, sargam_style : RequestStyles]

(***************************************************************************)
(* State.                                                                  *)
(***************************************************************************)
VARIABLES
    kcall,     \* the last call on key strings: its operation and arguments
    kret,      \* the outcome of calculate_semitone_difference in that call
    ktret,     \* the outcome of transpose_notes in that call
    pitch0,    \* the pitch a chain of transpose_pitch calls started from
    pitch,     \* the pitch after the calls made so far
    deltas,    \* the semitone arguments of those calls, in order
    notes0,    \* the batch a chain of transpose_notes calls started from
    notes,     \* the batch the next transpose_notes call is given
    prev,      \* the batch the last transpose_notes call was given
    calls,     \* the (from_key, to_key) arguments of the calls, in order
    mode,      \* the mode argument of the last call
    tret,      \* the outcome of the last transpose_notes call
    vcall,     \* the arguments of the validate_transposition call
    vret,      \* what it returned
    cin,       \* the notes given to a converter
    ccall,     \* the converter called and its style argument
    cret,      \* what it returned
    request,   \* the request get_transcription was given
    response,  \* the status, the notes and the chords it answered with
    shared0,   \* the note list concurrent calls were given
    shared,    \* that list as the calls have left it so far
    threads,   \* per thread: its call, its position in the loop, its output
    midi_step, \* 0: no call yet, 1: a name was made, 2: and converted back
    midi_pitch,   \* the number given to _midi_to_note_name
    midi_name,    \* the name it returned
    midi_back,    \* the outcome of _note_name_to_midi on that name
    now,          \* the clock, in hours
    rate_zset,    \* Redis: the sorted set rate_limit:transcription:{user}
    active_jobs,  \* Redis: the set active_jobs:{user}
    jobs,         \* Firestore: the status of the user's jobs, by job id
    accepted,     \* the times at which a job of the user was accepted
    handlers      \* per request being handled: its position, its job, and
                  \* the status of the last response given there

keyVars      == <<kcall, kret, ktret>>
pitchVars    == <<pitch0, pitch, deltas>>
noteVars     == <<notes0, notes, prev, calls, mode, tret>>
validateVars == <<vcall, vret>>
convertVars  == <<cin, ccall, cret>>
requestVars  == <<request, response>>
threadVars   == <<shared0, shared, threads>>
midiVars     == <<midi_step, midi_pitch, midi_name, midi_back>>
uploadVars   == <<now, rate_zset, active_jobs, jobs, accepted, handlers>>
vars == <<keyVars, pitchVars, noteVars, validateVars, convertVars, requestVars,
          threadVars, midiVars, uploadVars>>

NoCall == [op |-> "none", from_key |-> <<>>, to_key |-> <<>>, notes |-> <<>>,
           mode |-> "major"]
NoInt  == [raised |-> FALSE, value |-> 0]
NoList == [raised |-> FALSE, value |-> <<>>]

KeyIdle   == kcall = NoCall /\ kret = NoInt /\ ktret = NoList
PitchIdle == pitch0 = <<>> /\ pitch = <<>> /\ deltas = <<>>
NoteIdle  == /\ notes0 = <<>> /\ notes = <<>> /\ prev = <<>>
             /\ calls = <<>> /\ mode = "major" /\ tret = NoList

NoValidate == [called |-> FALSE, original_notes |-> <<>>,
               transposed_notes |-> <<>>, semitones |-> 0,
               from_key |-> <<>>, to_key |-> <<>>]
NoConvert  == [op |-> "none", style |-> "hindustani", format |-> "none"]

ValidateIdle == vcall = NoValidate /\ vret = FALSE
ConvertIdle  == cin = <<>> /\ ccall = NoConvert /\ cret = <<>>

NoRequest  == [called |-> FALSE]
NoResponse == [status_code |-> 0, notes |-> <<>>, chords |-> <<>>]

RequestIdle == request = NoRequest /\ response = NoResponse

NoThreadCall == [op |-> "none", from_key |-> <<>>, to_key |-> <<>>,
                 mode |-> "major", style |-> "hindustani"]
NoThread == [pc |-> "idle", call |-> NoThreadCall, semitone_diff |-> 0, i |-> 0,
             out |-> <<>>, result |-> <<>>]

NoHandler == [pc |-> "idle", job_id |-> 0, status_code |-> 0]

UploadIdle ==
    /\ now = 0 /\ rate_zset = <<>> /\ active_jobs = {} /\ jobs = <<>>
    /\ accepted = <<>> /\ handlers = [h \in Handlers |-> NoHandler]

MidiIdle ==
    midi_step = 0 /\ midi_pitch = 0 /\ midi_name = <<>> /\ midi_back = NoInt

ThreadIdle ==
    shared0 = <<>> /\ shared = <<>> /\ threads = [t \in Threads |-> NoThread]

(***************************************************************************)
(* Calls that vary the key strings.                                        *)
(***************************************************************************)
InitKey ==
    KeyIdle /\ PitchIdle /\ NoteIdle /\ ValidateIdle /\ ConvertIdle /\ RequestIdle
    /\ ThreadIdle /\ MidiIdle /\ UploadIdle

CallSemitoneDifference ==
    \E a \in KeyInputs, b \in KeyInputs :
        /\ kcall = NoCall
        /\ kcall' = [op |-> "calculate_semitone_difference", from_key |-> a,
                     to_key |-> b, notes |-> <<>>, mode |-> "major"]
        /\ kret' = calculate_semitone_difference(a, b)
        /\ ktret' = NoList
        /\ UNCHANGED <<uploadVars, midiVars, threadVars, requestVars, pitchVars, noteVars, validateVars, convertVars>>

CallTransposeNotesKeys ==
    \E a \in KeyInputs, b \in KeyInputs, ns \in KeyBatches, m \in Modes :
        /\ kcall = NoCall
        /\ kcall' = [op |-> "transpose_notes", from_key |-> a, to_key |-> b,
                     notes |-> ns, mode |-> m]
        /\ kret' = NoInt
        /\ ktret' = transpose_notes(ns, a, b, m)
        /\ UNCHANGED <<uploadVars, midiVars, threadVars, requestVars, pitchVars, noteVars, validateVars, convertVars>>

NextKey == CallSemitoneDifference \/ CallTransposeNotesKeys

SpecKey == InitKey /\ [][NextKey]_vars

(***************************************************************************)
(* Successive transpose_pitch calls on one pitch.                          *)
(***************************************************************************)
InitPitch ==
    /\ KeyIdle /\ NoteIdle /\ ValidateIdle /\ ConvertIdle /\ RequestIdle
    /\ ThreadIdle /\ MidiIdle /\ UploadIdle
    /\ pitch0 \in PitchInputs
    /\ pitch = pitch0
    /\ deltas = <<>>

CallTransposePitch ==
    \E n \in Deltas :
        /\ Len(deltas) < MaxSteps
        /\ pitch' = transpose_pitch(pitch, n)
        /\ deltas' = Append(deltas, n)
        /\ UNCHANGED <<uploadVars, midiVars, threadVars, requestVars, keyVars, pitch0, noteVars, validateVars, convertVars>>

NextPitch == CallTransposePitch

SpecPitch == InitPitch /\ [][NextPitch]_vars

(***************************************************************************)
(* Successive transpose_notes calls, each given what the last returned.    *)
(***************************************************************************)
InitNotes ==
    /\ KeyIdle /\ PitchIdle /\ ValidateIdle /\ ConvertIdle /\ RequestIdle
    /\ ThreadIdle /\ MidiIdle /\ UploadIdle
    /\ notes0 \in Batches
    /\ notes = notes0
    /\ prev = <<>>
    /\ calls = <<>>
    /\ mode = "major"
    /\ tret = NoList

CallTransposeNotes ==
    \E a \in BatchKeys, b \in BatchKeys, m \in Modes :
        /\ Len(calls) < MaxCalls
        /\ tret' = transpose_notes(notes, a, b, m)
        /\ prev' = notes
        /\ notes' = IF tret'.raised THEN notes ELSE tret'.value
        /\ calls' = Append(calls, [from_key |-> a, to_key |-> b])
        /\ mode' = m
        /\ UNCHANGED <<uploadVars, midiVars, threadVars, requestVars, keyVars, pitchVars, notes0, validateVars, convertVars>>

NextNotes == CallTransposeNotes

SpecNotes == InitNotes /\ [][NextNotes]_vars

(***************************************************************************)
(* One validate_transposition call on any two lists.                       *)
(***************************************************************************)
InitValidate ==
    KeyIdle /\ PitchIdle /\ NoteIdle /\ ValidateIdle /\ ConvertIdle /\ RequestIdle
    /\ ThreadIdle /\ MidiIdle /\ UploadIdle

CallValidateTransposition ==
    \E o \in ValidateLists, t \in ValidateLists, n \in ValidateDeltas :
        /\ vcall = NoValidate
        /\ vcall' = [called |-> TRUE, original_notes |-> o,
                     transposed_notes |-> t, semitones |-> n,
                     from_key |-> <<>>, to_key |-> <<>>]
        /\ vret' = validate_transposition(o, t, n)
        /\ UNCHANGED <<uploadVars, midiVars, threadVars, requestVars, keyVars, pitchVars, noteVars, convertVars>>

\* transpose a batch between two valid keys, then validate the outcome against
\* the batch with the interval of the two keys (from_key = to_key = '' records
\* a call on lists that were not made this way)
CallValidateTransposed ==
    \E o \in Batches, a \in ValidateKeys, b \in ValidateKeys :
        LET transposed == transpose_notes(o, a, b, "major").value
            semitones == calculate_semitone_difference(a, b).value
        IN  /\ vcall = NoValidate
            /\ vcall' = [called |-> TRUE, original_notes |-> o,
                         transposed_notes |-> transposed,
                         semitones |-> semitones, from_key |-> a, to_key |-> b]
            /\ vret' = validate_transposition(o, transposed, semitones)
            /\ UNCHANGED <<uploadVars, midiVars, threadVars, requestVars, keyVars, pitchVars, noteVars, convertVars>>

NextValidate == CallValidateTransposition \/ CallValidateTransposed

SpecValidate == InitValidate /\ [][NextValidate]_vars

(***************************************************************************)
(* One converter call on a batch.                                          *)
(***************************************************************************)
InitConvert ==
    /\ KeyIdle /\ PitchIdle /\ NoteIdle /\ ValidateIdle /\ RequestIdle
    /\ ThreadIdle /\ MidiIdle /\ UploadIdle
    /\ cin \in ConvertBatches
    /\ ccall = NoConvert
    /\ cret = <<>>

CallConvertToSargam ==
    \E style \in Styles :
        /\ ccall = NoConvert
        /\ ccall' = [op |-> "convert_to_sargam", style |-> style,
                     format |-> "none"]
        /\ cret' = convert_to_sargam(cin, style, <<"C">>)
        /\ UNCHANGED <<uploadVars, midiVars, threadVars, requestVars, keyVars, pitchVars, noteVars, validateVars, cin>>

CallConvertToWestern ==
    /\ ccall = NoConvert
    /\ ccall' = [op |-> "convert_to_western", style |-> "hindustani",
                 format |-> "none"]
    /\ cret' = convert_to_western(cin)
    /\ UNCHANGED <<uploadVars, midiVars, threadVars, requestVars, keyVars, pitchVars, noteVars, validateVars, cin>>

CallConvertToAlphabetical ==
    /\ ccall = NoConvert
    /\ ccall' = [op |-> "convert_to_alphabetical", style |-> "hindustani",
                 format |-> "none"]
    /\ cret' = convert_to_alphabetical(cin)
    /\ UNCHANGED <<uploadVars, midiVars, threadVars, requestVars, keyVars, pitchVars, noteVars, validateVars, cin>>

\* convert to Western, then the entries of the result to Alphabetical
CallWesternThenAlphabetical ==
    /\ ccall = NoConvert
    /\ ccall' = [op |-> "western_then_alphabetical", style |-> "hindustani",
                 format |-> "none"]
    /\ cret' = convert_to_alphabetical(convert_to_western(cin).notes)
    /\ UNCHANGED <<uploadVars, midiVars, threadVars, requestVars, keyVars, pitchVars, noteVars, validateVars, cin>>

CallConvertNotes ==
    \E format \in FormatInputs, sargam_style \in Styles :
        /\ ccall = NoConvert
        /\ ccall' = [op |-> "convert_notes", style |-> sargam_style,
                     format |-> format]
        /\ cret' = convert_notes(cin, format, sargam_style)
        /\ UNCHANGED <<uploadVars, midiVars, threadVars, requestVars, keyVars, pitchVars, noteVars, validateVars, cin>>

NextConvert ==
    \/ CallConvertToSargam
    \/ CallConvertToWestern
    \/ CallConvertToAlphabetical
    \/ CallWesternThenAlphabetical
    \/ CallConvertNotes

SpecConvert == InitConvert /\ [][NextConvert]_vars

(***************************************************************************)
(* One get_transcription request.                                          *)
(***************************************************************************)
InitRequest ==
    KeyIdle /\ PitchIdle /\ NoteIdle /\ ValidateIdle /\ ConvertIdle /\ RequestIdle
    /\ ThreadIdle /\ MidiIdle /\ UploadIdle

GetTranscription ==
    \E req \in Requests :
        /\ request = NoRequest
        /\ request' = [called |-> TRUE, args |-> req]
        /\ response' = get_transcription(req)
        /\ UNCHANGED <<uploadVars, midiVars, threadVars, keyVars, pitchVars, noteVars, validateVars,
                       convertVars>>

NextRequest == GetTranscription

SpecRequest == InitRequest /\ [][NextRequest]_vars

(***************************************************************************)
(* Calls of different requests running at the same time on one note list,  *)
(* interleaved at the iterations of their loops.                           *)
(***************************************************************************)
InitThreads ==
    /\ KeyIdle /\ PitchIdle /\ NoteIdle /\ ValidateIdle /\ ConvertIdle
    /\ RequestIdle /\ MidiIdle /\ UploadIdle
    /\ shared0 \in SharedBatches
    /\ shared = shared0
    /\ threads = [t \in Threads |-> NoThread]

\* a thread enters a call: the interval is computed, the local list is empty
ThreadCall(t) ==
    \E call \in ThreadCalls :
        /\ threads[t].pc = "idle"
        /\ threads' = [threads EXCEPT ![t] =
               [pc |-> "loop", call |-> call,
                semitone_diff |->
                    IF call.op = "transpose_notes"
                    THEN calculate_semitone_difference(call.from_key,
                                                       call.to_key).value
                    ELSE 0,
                i |-> 1, out |-> <<>>, result |-> <<>>]]
        /\ UNCHANGED <<uploadVars, midiVars, keyVars, pitchVars, noteVars, validateVars,
                       convertVars, requestVars, shared0, shared>>

\* one iteration of the loop of the thread's call
ThreadStep(t) ==
    /\ threads[t].pc = "loop"
    /\ threads[t].i <= Len(shared)
    /\ LET body == loop_body(threads[t].call, shared, threads[t].i,
                             threads[t].semitone_diff)
       IN  /\ shared' = body.notes
           /\ threads' = [threads EXCEPT ![t].i = @ + 1,
                                         ![t].out = @ \o body.appended]
    /\ UNCHANGED <<uploadVars, midiVars, keyVars, pitchVars, noteVars, validateVars,
                   convertVars, requestVars, shared0>>

\* the loop has ended and the call returns
ThreadReturn(t) ==
    /\ threads[t].pc = "loop"
    /\ threads[t].i > Len(shared)
    /\ threads' = [threads EXCEPT ![t].pc = "done",
                                  ![t].result = loop_result(threads[t].call,
                                                            threads[t].out)]
    /\ UNCHANGED <<uploadVars, midiVars, keyVars, pitchVars, noteVars, validateVars,
                   convertVars, requestVars, shared0, shared>>

NextThreads ==
    \E t \in Threads : ThreadCall(t) \/ ThreadStep(t) \/ ThreadReturn(t)

SpecThreads == InitThreads /\ [][NextThreads]_vars

(***************************************************************************)
(* A MIDI pitch number made into a note name and the name back into a      *)
(* number.                                                                 *)
(***************************************************************************)
InitMidi ==
    /\ KeyIdle /\ PitchIdle /\ NoteIdle /\ ValidateIdle /\ ConvertIdle
    /\ RequestIdle /\ ThreadIdle /\ MidiIdle /\ UploadIdle

CallMidiToNoteName ==
    \E m \in MidiPitches :
        /\ midi_step = 0
        /\ midi_step' = 1
        /\ midi_pitch' = m
        /\ midi_name' = _midi_to_note_name(m)
        /\ UNCHANGED <<uploadVars, midi_back, keyVars, pitchVars, noteVars, validateVars,
                       convertVars, requestVars, threadVars>>

CallNoteNameToMidi ==
    /\ midi_step = 1
    /\ midi_step' = 2
    /\ midi_back' = _note_name_to_midi(midi_name)
    /\ UNCHANGED <<uploadVars, midi_pitch, midi_name, keyVars, pitchVars, noteVars,
                   validateVars, convertVars, requestVars, threadVars>>

NextMidi == CallMidiToNoteName \/ CallNoteNameToMidi

SpecMidi == InitMidi /\ [][NextMidi]_vars

(***************************************************************************)
(* Upload and YouTube requests of one user (api/v1/transcriptions.py) and  *)
(* the transcription task (tasks/transcription.py).  Both endpoints call   *)
(* the limiter in the same order; a request is split where it awaits the   *)
(* limiter.  The endpoints import check_rate_limit and                      *)
(* increment_rate_limit, names rate_limiter.py does not define: they are   *)
(* taken to be check_transcription_rate_limit and                          *)
(* increment_transcription_count.  An exception of the limiter is no       *)
(* HTTPException and becomes HTTP 500 (lines 166-172).                     *)
(***************************************************************************)
Respond(h, status_code) ==
    handlers' = [handlers EXCEPT ![h] = [pc |-> "idle", job_id |-> 0,
                                         status_code |-> status_code]]

Goto(h, pc, job_id) ==
    handlers' = [handlers EXCEPT ![h] = [pc |-> pc, job_id |-> job_id,
                                         status_code |-> 0]]

otherVars ==
    <<keyVars, pitchVars, noteVars, validateVars, convertVars, requestVars,
      threadVars, midiVars>>

InitUpload ==
    /\ KeyIdle /\ PitchIdle /\ NoteIdle /\ ValidateIdle /\ ConvertIdle
    /\ RequestIdle /\ ThreadIdle /\ MidiIdle /\ UploadIdle

\* lines 50-68: the instruments are parsed and the daily limit is checked
UploadCheckRateLimit(h, cap) ==
    \E valid_instruments \in BOOLEAN :
        LET checked == check_transcription_rate_limit(rate_zset, now)
        IN  /\ handlers[h].pc = "idle"
            /\ Len(jobs) < cap
            /\ IF ~valid_instruments
               THEN Respond(h, HTTP_400_BAD_REQUEST) /\ UNCHANGED rate_zset
               ELSE /\ rate_zset' = checked.zset
                    /\ IF checked.raised
                       THEN Respond(h, HTTP_500_INTERNAL_SERVER_ERROR)
                       ELSE IF ~checked.value[1]
                       THEN Respond(h, HTTP_429_TOO_MANY_REQUESTS)
                       ELSE Goto(h, "rate_checked", 0)
            /\ UNCHANGED <<now, active_jobs, jobs, accepted, otherVars>>

\* lines 70-76: the number of active jobs is checked
UploadCheckConcurrentJobs(h) ==
    LET checked == check_concurrent_jobs(active_jobs)
    IN  /\ handlers[h].pc = "rate_checked"
        /\ IF checked.raised
           THEN Respond(h, HTTP_500_INTERNAL_SERVER_ERROR)
           ELSE IF ~checked.value[1]
           THEN Respond(h, HTTP_503_SERVICE_UNAVAILABLE)
           ELSE Goto(h, "jobs_checked", 0)
        /\ UNCHANGED <<now, rate_zset, active_jobs, jobs, accepted, otherVars>>

\* lines 78-136: the audio is validated and the job document is created with
\* status 'queued'; the job id is fresh
UploadCreateJob(h) ==
    \E is_valid \in BOOLEAN :
        /\ handlers[h].pc = "jobs_checked"
        /\ IF ~is_valid
           THEN Respond(h, HTTP_400_BAD_REQUEST) /\ UNCHANGED jobs
           ELSE /\ jobs' = Append(jobs, "queued")
                /\ Goto(h, "created", Len(jobs) + 1)
        /\ UNCHANGED <<now, rate_zset, active_jobs, accepted, otherVars>>

\* lines 138-158: the counter is incremented, the task is queued and the
\* job is answered for
UploadQueueTask(h) ==
    /\ handlers[h].pc = "created"
    /\ rate_zset' = increment_transcription_count(rate_zset, now)
    /\ accepted' = Append(accepted, now)
    /\ Respond(h, HTTP_200_OK)
    /\ UNCHANGED <<now, active_jobs, jobs, otherVars>>

\* the clock advances; the key of the sorted set may expire
Tick ==
    /\ now < MaxTicks * TickHours
    /\ now' = now + TickHours
    /\ rate_zset' = expired(rate_zset, now')
    /\ UNCHANGED <<active_jobs, jobs, accepted, handlers, otherVars>>

\* transcribe_audio_task (lines 18-130) on a job whose task was queued
update_job_status(job_id, status) == jobs' = [jobs EXCEPT ![job_id] = status]

TaskStart(job_id) ==
    /\ jobs[job_id] = "queued"
    /\ \A h \in Handlers : handlers[h].job_id # job_id
    /\ update_job_status(job_id, "processing")
    /\ UNCHANGED <<now, rate_zset, active_jobs, accepted, handlers, otherVars>>

TaskComplete(job_id) ==
    /\ jobs[job_id] = "processing"
    /\ update_job_status(job_id, "completed")
    /\ UNCHANGED <<now, rate_zset, active_jobs, accepted, handlers, otherVars>>

TaskFail(job_id) ==
    /\ jobs[job_id] = "processing"
    /\ update_job_status(job_id, "failed")
    /\ UNCHANGED <<now, rate_zset, active_jobs, accepted, handlers, otherVars>>

\* requests over time, without the tasks
NextRateLimit ==
    \/ \E h \in Handlers : UploadCheckRateLimit(h, MaxJobs)
    \/ \E h \in Handlers : UploadCheckConcurrentJobs(h)
    \/ \E h \in Handlers : UploadCreateJob(h)
    \/ \E h \in Handlers : UploadQueueTask(h)
    \/ Tick

SpecRateLimit == InitUpload /\ [][NextRateLimit]_vars

\* requests and the tasks of their jobs
NextJobs ==
    \/ \E h \in Handlers : UploadCheckRateLimit(h, MaxTaskJobs)
    \/ \E h \in Handlers : UploadCheckConcurrentJobs(h)
    \/ \E h \in Handlers : UploadCreateJob(h)
    \/ \E h \in Handlers : UploadQueueTask(h)
    \/ \E j \in DOMAIN jobs : TaskStart(j)
    \/ \E j \in DOMAIN jobs : TaskComplete(j)
    \/ \E j \in DOMAIN jobs : TaskFail(j)

SpecJobs == InitUpload /\ [][NextJobs]_vars

(***************************************************************************)
(* Properties.                                                             *)
(***************************************************************************)
\* the chromatic class a recognised key names: C=0, C#=Db=1, ... B=11
ClassOf(k) ==
    CASE k = <<"C">> -> 0
      [] k \in {<<"C", "#">>, <<"D", "b">>} -> 1
      [] k = <<"D">> -> 2
      [] k \in {<<"D", "#">>, <<"E", "b">>} -> 3
      [] k = <<"E">> -> 4
      [] k = <<"F">> -> 5
      [] k \in {<<"F", "#">>, <<"G", "b">>} -> 6
      [] k = <<"G">> -> 7
      [] k \in {<<"G", "#">>, <<"A", "b">>} -> 8
      [] k = <<"A">> -> 9
      [] k \in {<<"A", "#">>, <<"B", "b">>} -> 10
      [] k = <<"B">> -> 11

SharpNames == << <<"C">>, <<"C", "#">>, <<"D">>, <<"D", "#">>, <<"E">>, <<"F">>,
                 <<"F", "#">>, <<"G">>, <<"G", "#">>, <<"A">>, <<"A", "#">>,
                 <<"B">> >>

\* the five flat/sharp pairs
EnharmonicPairs ==
    { [flat |-> <<"D", "b">>, sharp |-> <<"C", "#">>],
      [flat |-> <<"E", "b">>, sharp |-> <<"D", "#">>],
      [flat |-> <<"G", "b">>, sharp |-> <<"F", "#">>],
      [flat |-> <<"A", "b">>, sharp |-> <<"G", "#">>],
      [flat |-> <<"B", "b">>, sharp |-> <<"A", "#">>] }

\* C1: for every valid pitch p and every n in -24..24, transposing p by n and
\* the result by -n returns exactly p.
C1_RoundTrip ==
    (/\ pitch0 \in ValidPitches
     /\ Len(deltas) = 2
     /\ deltas[1] \in (0 - 24)..24
     /\ deltas[2] = 0 - deltas[1])
    => pitch = pitch0

\* C2: transposing a valid pitch of chromatic index i and octave o by any n
\* gives the name of class (i + n) mod 12 followed by octave
\* o + floor((i + n) / 12).
C2_OctaveWraparound ==
    \A i \in 0..11, o \in MinOctave..MaxOctave :
        (pitch0 = SharpNames[i + 1] \o str(o) /\ Len(deltas) = 1)
        => pitch = SharpNames[((i + deltas[1]) % 12) + 1]
                   \o str(o + ((i + deltas[1]) \div 12))

\* C3: for two recognised keys calculate_semitone_difference returns the raw
\* difference of their chromatic indices, to - from, which lies in -11..11 and
\* is never reduced to a minimal or positive representative (G -> C is -7).
C3_RawDifference ==
    (/\ kcall.op = "calculate_semitone_difference"
     /\ kcall.from_key \in RecognisedKeys
     /\ kcall.to_key \in RecognisedKeys)
    => /\ ~kret.raised
       /\ kret.value = ClassOf(kcall.to_key) - ClassOf(kcall.from_key)
       /\ kret.value \in (0 - 11)..11
       /\ (ClassOf(kcall.to_key) = ClassOf(kcall.from_key) => kret.value = 0)

\* C3 witness: the call G -> C has returned -7.
C3_Witness ==
    /\ kcall.op = "calculate_semitone_difference"
    /\ kcall.from_key = <<"G">>
    /\ kcall.to_key = <<"C">>
    /\ kret = [raised |-> FALSE, value |-> 0 - 7]

\* either spelling of a pair gives the same semitone difference, as from_key
\* and as to_key
C4_KeysCollapse ==
    \A e \in EnharmonicPairs, k \in RecognisedKeys :
        /\ calculate_semitone_difference(e.flat, k)
             = calculate_semitone_difference(e.sharp, k)
        /\ calculate_semitone_difference(k, e.flat)
             = calculate_semitone_difference(k, e.sharp)

\* C4: the flat and the sharp spelling of a class give the same semitone
\* difference as either argument, and transposing a flat-spelled pitch gives
\* what transposing the sharp-spelled pitch of the same octave gives, always
\* sharp-spelled.
C4_EnharmonicCollapse ==
    /\ C4_KeysCollapse
    /\ \A e \in EnharmonicPairs, o \in MinOctave..MaxOctave :
          (pitch0 = e.flat \o str(o) /\ Len(deltas) = 1)
          => /\ pitch = transpose_pitch(e.sharp \o str(o), deltas[1])
             /\ \A j \in 1..Len(pitch) : pitch[j] # "b"

\* C5: calculate_semitone_difference raises exactly when one of its keys is
\* none of the 12 sharp names and 5 flat aliases, and returns an integer
\* otherwise; transpose_notes raises in the same cases and then returns
\* nothing.
C5_InvalidKeyError ==
    LET recognised == /\ kcall.from_key \in RecognisedKeys
                      /\ kcall.to_key \in RecognisedKeys
    IN  /\ kcall.op = "calculate_semitone_difference"
           => /\ kret.raised <=> ~recognised
              /\ ~kret.raised => kret.value \in Int
        /\ kcall.op = "transpose_notes"
           => /\ ktret.raised <=> ~recognised
              /\ ktret.raised => ktret.value = <<>>
              /\ ~ktret.raised => Len(ktret.value) = Len(kcall.notes)

\* C5 witness: transpose_notes on a two-note batch towards the key 'H' raised.
C5_Witness ==
    /\ kcall.op = "transpose_notes"
    /\ kcall.from_key = <<"C">>
    /\ kcall.to_key = <<"H">>
    /\ Len(kcall.notes) = 2
    /\ ktret.raised

\* the keys of the last transpose_notes call of the chain
LastCall == calls[Len(calls)]
LastValid == /\ Len(calls) >= 1
             /\ LastCall.from_key \in RecognisedKeys
             /\ LastCall.to_key \in RecognisedKeys

\* C7: transpose_notes with valid keys returns as many notes as it was given,
\* in the same order, each with the fields of its input note and with every
\* field other than pitch and pitchMidi unchanged.
C7_FramePreserved ==
    LastValid
    => /\ ~tret.raised
       /\ Len(tret.value) = Len(prev)
       /\ \A i \in 1..Len(prev) :
             /\ DOMAIN tret.value[i] = DOMAIN prev[i]
             /\ \A f \in (DOMAIN prev[i]) \ {"pitch", "pitchMidi"} :
                   tret.value[i][f] = prev[i][f]

\* C7 witness: a batch of a note with an empty pitch and C4 was transposed
\* from C to B, and the second note became B4.
C7_Witness ==
    /\ Len(calls) = 1
    /\ calls[1] = [from_key |-> <<"C">>, to_key |-> <<"B">>]
    /\ Len(prev) = 2
    /\ prev[1] = setitem(NoteEmptyPitch, "startTime", 1)
    /\ prev[2] = setitem(NoteC4, "startTime", 2)
    /\ ~tret.raised
    /\ Len(tret.value) = 2
    /\ tret.value[1] = prev[1]
    /\ tret.value[2].pitch = <<"B", "4">>

\* C8: every input note that carries pitchMidi yields an output note whose
\* pitchMidi is the input's plus the interval of the key pair.
C8_PitchMidiShift ==
    LastValid
    => /\ ~tret.raised
       /\ Len(tret.value) = Len(prev)
       /\ \A i \in 1..Len(prev) :
             "pitchMidi" \in DOMAIN prev[i]
             => /\ "pitchMidi" \in DOMAIN tret.value[i]
                /\ tret.value[i].pitchMidi
                     = prev[i].pitchMidi
                       + (ClassOf(LastCall.to_key) - ClassOf(LastCall.from_key))

\* C9: transposing a batch of well-formed notes from key a to key b and the
\* result from b back to a gives at every index the original pitch string.
C9_KeyReversalRoundTrip ==
    (/\ Len(calls) = 2
     /\ calls[1].from_key \in RecognisedKeys
     /\ calls[1].to_key \in RecognisedKeys
     /\ calls[2] = [from_key |-> calls[1].to_key, to_key |-> calls[1].from_key]
     /\ \A i \in 1..Len(notes0) :
           "pitch" \in DOMAIN notes0[i] /\ notes0[i].pitch \in ValidPitches)
    => /\ ~tret.raised
       /\ Len(notes) = Len(notes0)
       /\ \A i \in 1..Len(notes0) : notes[i].pitch = notes0[i].pitch

\* a malformed pitch string: empty, lacking a digit octave, or with an
\* unrecognized note letter
Malformed(p) ==
    \/ p = <<>>
    \/ ~\E j \in 1..Len(p) : isdigit(p[j])
    \/ p[1] \notin Letters

\* the entries a converter call returned
ConvertedNotes == IF ccall.op = "convert_to_western" THEN cret.notes ELSE cret

\* transpose_pitch returns every malformed input unchanged, for every delta
C6_TransposeUnchanged ==
    \A p \in {q \in MalformedPitches : Malformed(q)} :
        \A n \in Deltas : transpose_pitch(p, n) = p

EntriesOf(i) == {j \in 1..Len(ConvertedNotes) : ConvertedNotes[j].startTime = i}

C10_ValidateExact ==
    vcall.called
    => (vret <=>
          /\ Len(vcall.original_notes) = Len(vcall.transposed_notes)
          /\ \A i \in 1..Len(vcall.original_notes) :
                transpose_pitch(get(vcall.transposed_notes[i], "pitch", <<>>),
                                0 - vcall.semitones)
                  = get(vcall.original_notes[i], "pitch", <<>>))

\* a batch of well-formed notes: every note has a valid pitch
WellFormed(ns) ==
    \A i \in 1..Len(ns) : "pitch" \in DOMAIN ns[i] /\ ns[i].pitch \in ValidPitches

\* C11: for every batch of well-formed notes and every pair of valid keys,
\* validating what transpose_notes returned against the batch, with the
\* interval of the key pair, returns True (in particular from C to G with 7).
C11_ValidateTransposed ==
    (/\ vcall.called
     /\ vcall.from_key \in RecognisedKeys
     /\ vcall.to_key \in RecognisedKeys
     /\ WellFormed(vcall.original_notes))
    => vret

\* the class name of a pitch string: its characters before the octave
RECURSIVE NameOf(_)
NameOf(p) ==
    IF p = <<>> \/ isdigit(p[1]) \/ p[1] = "-" THEN <<>>
    ELSE <<p[1]>> \o NameOf(Tail(p))

\* the table of a style
TableOf(style) ==
    IF style = "hindustani" THEN HINDUSTANI_SARGAM_MAP ELSE CARNATIC_SARGAM_MAP

\* a symbol with any of the three octave markers
Marked(sym) == {sym, lower(sym), sym \o <<"'">>}

\* C12: every entry convert_to_sargam emits is, up to the octave marker, the
\* symbol the table of the selected style holds for the chromatic class of
\* the entry's source note; an entry is Sa (Hindustani) or S (Carnatic) only
\* if the class of its source note is C.
C12_SargamSymbol ==
    ccall.op = "convert_to_sargam"
    => \A j \in 1..Len(cret) :
          LET name == NameOf(cin[cret[j].startTime].pitch)
          IN  /\ name \in RecognisedKeys
              /\ cret[j].note \in Marked(TableOf(ccall.style)[ClassOf(name) + 1])
              /\ cret[j].note \in Marked(TableOf(ccall.style)[1])
                 => ClassOf(name) = 0

\* C13: in both styles the entry of a note of class k and octave o is the
\* table symbol of k unmodified when o = 4, lowercased and nothing else when
\* o < 4, and followed by exactly one apostrophe when o > 4, however far o
\* is from 4.
C13_OctaveMarking ==
    ccall.op = "convert_to_sargam"
    => \A i \in 1..Len(cin), k \in 1..12, o \in MinOctave..MaxOctave :
          cin[i].pitch = SharpNames[k] \o str(o)
          => \E j \in 1..Len(cret) :
                /\ cret[j].startTime = i
                /\ cret[j].note = IF o = 4 THEN TableOf(ccall.style)[k]
                                  ELSE IF o < 4
                                       THEN lower(TableOf(ccall.style)[k])
                                       ELSE TableOf(ccall.style)[k] \o <<"'">>

\* a pitch with fewer than 2 characters, or without a digit after a one- or
\* two-character class name
NoDigitOctave(p) ==
    Len(p) < 2 \/ ~\E n \in {1, 2} : Len(p) > n /\ isdigit(p[n + 1])

\* the start times of a list of entries
StartTimes(entries) == {entries[j].startTime : j \in 1..Len(entries)}

\* C14: convert_to_sargam and convert_to_western emit no entry for a note
\* whose pitch has fewer than 2 characters or no digit octave after a one- or
\* two-character class name, exactly one entry for every other note, and on
\* the same list both keep the same indices.
C14_SkipPolicy ==
    ccall.op \in {"convert_to_sargam", "convert_to_western"}
    => /\ \A i \in 1..Len(cin) :
             Cardinality(EntriesOf(i))
               = IF NoDigitOctave(get(cin[i], "pitch", <<>>)) THEN 0 ELSE 1
       /\ StartTimes(ConvertedNotes) \subseteq 1..Len(cin)
       /\ \A style \in Styles :
             StartTimes(ConvertedNotes)
               = StartTimes(convert_to_sargam(cin, style, <<"C">>))
       /\ StartTimes(ConvertedNotes) = StartTimes(convert_to_western(cin).notes)

\* C14 witness: convert_to_western was given C# without octave and then C#3,
\* and returned one entry, for the second note.
C14_Witness ==
    /\ ccall.op = "convert_to_western"
    /\ Len(cin) = 2
    /\ cin[1].pitch = <<"C", "#">>
    /\ cin[2].pitch = <<"C", "#", "3">>
    /\ Len(cret.notes) = 1
    /\ cret.notes[1].startTime = 2
    /\ cret.notes[1].pitch = <<"C", "#", "3">>

\* C15: convert_to_alphabetical returns, for every list, as many entries as
\* it was given notes, the i-th with note equal to the pitch of the i-th
\* note, whatever that pitch is.
C15_AlphabeticalTotal ==
    ccall.op = "convert_to_alphabetical"
    => /\ Len(cret) = Len(cin)
       /\ \A i \in 1..Len(cin) : cret[i].note = cin[i].pitch

\* C15 witness: convert_to_alphabetical was given an empty pitch and then H4
\* and returned both.
C15_Witness ==
    /\ ccall.op = "convert_to_alphabetical"
    /\ Len(cin) = 2
    /\ cin[1].pitch = <<>>
    /\ cin[2].pitch = <<"H", "4">>
    /\ Len(cret) = 2
    /\ cret[1].note = <<>>
    /\ cret[2].note = <<"H", "4">>

\* the pitch strings of a note list, in order
Pitches(ns) == [i \in 1..Len(ns) |-> get(ns[i], "pitch", <<>>)]

\* the 'note' values of a list of entries, in order
NoteValues(entries) == [j \in 1..Len(entries) |-> entries[j].note]

\* the subsequence of the pitch strings that hold a digit octave
RECURSIVE ParseablePitches(_)
ParseablePitches(ps) ==
    IF ps = <<>> THEN <<>>
    ELSE (IF NoDigitOctave(Head(ps)) THEN <<>> ELSE <<Head(ps)>>)
         \o ParseablePitches(Tail(ps))

\* C16: for every note list, converting to Western and the entries of the
\* result to Alphabetical gives entries whose 'note' values are, in order,
\* exactly the pitch strings of the list.
C16_RoundTripLossless ==
    ccall.op = "western_then_alphabetical"
    => NoteValues(cret) = Pitches(cin)

\* C16 as amended: the 'note' values are, in order, the pitch strings of the
\* notes whose pitch holds a digit octave after a one- or two-character name;
\* they are all the pitch strings of the list when every pitch is such.
C16_RoundTripOfParseable ==
    ccall.op = "western_then_alphabetical"
    => /\ NoteValues(cret) = ParseablePitches(Pitches(cin))
       /\ (\A i \in 1..Len(cin) : ~NoDigitOctave(cin[i].pitch))
          => NoteValues(cret) = Pitches(cin)

\* C16 witness: the list H4, C#3 went through both conversions and came back
\* as H4, C#3.
C16_Witness ==
    /\ ccall.op = "western_then_alphabetical"
    /\ Pitches(cin) = << <<"H", "4">>, <<"C", "#", "3">> >>
    /\ NoteValues(cret) = << <<"H", "4">>, <<"C", "#", "3">> >>

\* C17: for each of the three formats convert_notes returns a result whose
\* format is the requested one and whose notes are those of the matching
\* converter on the same list, with style equal to the requested style when
\* the format is sargam; for any other format value it raises and returns
\* nothing.
C17_Dispatch ==
    ccall.op = "convert_notes"
    => /\ ccall.format \in NotationFormat
          => /\ ~cret.raised
             /\ cret.value.format = ccall.format
             /\ cret.value.notes
                  = CASE ccall.format = "sargam"
                           -> convert_to_sargam(cin, ccall.style, <<"C">>)
                      [] ccall.format = "western"
                           -> convert_to_western(cin).notes
                      [] ccall.format = "alphabetical"
                           -> convert_to_alphabetical(cin)
       /\ ccall.format = "sargam"
          => /\ "style" \in DOMAIN cret.value
             /\ cret.value.style = ccall.style
       /\ ccall.format \notin NotationFormat
          => cret = [raised |-> TRUE, value |-> <<>>]

\* C17 witness: convert_notes was asked for sargam in the Carnatic style on
\* the list C4, D5 and returned format sargam, style carnatic and the two
\* entries S and R2'.
C17_Witness ==
    /\ ccall = [op |-> "convert_notes", style |-> "carnatic",
                format |-> "sargam"]
    /\ Pitches(cin) = << <<"C", "4">>, <<"D", "5">> >>
    /\ ~cret.raised
    /\ cret.value.format = "sargam"
    /\ cret.value.style = "carnatic"
    /\ NoteValues(cret.value.notes) = << <<"S">>, <<"R", "2", "'">> >>

\* the indices of the notes whose pitch holds a digit octave, ascending
RECURSIVE ParseableFrom(_, _)
ParseableFrom(ns, i) ==
    IF i > Len(ns) THEN <<>>
    ELSE (IF NoDigitOctave(get(ns[i], "pitch", <<>>)) THEN <<>> ELSE <<i>>)
         \o ParseableFrom(ns, i + 1)

\* the index of the source note of each entry a converter call returned:
\* every index for convert_to_alphabetical, the indices of the notes that are
\* not skipped for the two others
SourceOf ==
    IF ccall.op = "convert_to_alphabetical" THEN [i \in 1..Len(cin) |-> i]
    ELSE ParseableFrom(cin, 1)

\* C18: the entries each of the three converters returns are in the order of
\* their source notes, and each has the startTime, the duration and the
\* velocity of its source note (64 when the source note carries no velocity).
C18_TimingKept ==
    ccall.op \in {"convert_to_sargam", "convert_to_western",
                  "convert_to_alphabetical"}
    => /\ Len(ConvertedNotes) = Len(SourceOf)
       /\ \A j \in 1..Len(SourceOf) :
             LET entry == ConvertedNotes[j]
                 note == cin[SourceOf[j]]
             IN  /\ entry.startTime = note.startTime
                 /\ entry.duration = note.duration
                 /\ entry.velocity = get(note, "velocity", 64)

\* C18 witness: convert_to_sargam was given a note with an empty pitch and
\* then C#3 with duration 2 and velocity 90, and returned one entry with
\* startTime 2, duration 2 and velocity 90.
C18_Witness ==
    /\ ccall.op = "convert_to_sargam"
    /\ Pitches(cin) = << <<>>, <<"C", "#", "3">> >>
    /\ cin[2].duration = 2
    /\ cin[2].velocity = 90
    /\ Len(cret) = 1
    /\ cret[1].startTime = 2
    /\ cret[1].duration = 2
    /\ cret[1].velocity = 90

\* the mode the last call was not given
OtherMode == IF mode = "minor" THEN "major" ELSE "minor"

\* C19: for every note list and valid key pair, what transpose_notes returned
\* under the mode it was given is what it returns under the other mode.
C19_ModeNoEffect ==
    LastValid
    => /\ ~tret.raised
       /\ tret = transpose_notes(prev, LastCall.from_key, LastCall.to_key,
                                 OtherMode)

\* C19 witness: the list C4 was transposed from C to B in minor mode and
\* became B4.
C19_Witness ==
    /\ Len(calls) = 1
    /\ calls[1] = [from_key |-> <<"C">>, to_key |-> <<"B">>]
    /\ mode = "minor"
    /\ prev = <<setitem(NoteC4, "startTime", 1)>>
    /\ ~tret.raised
    /\ tret.value[1].pitch = <<"B", "4">>

\* C20: a get_transcription request whose scale is an unrecognized key is
\* answered with a 4xx status, as a request with an unsupported format is,
\* and never with a 5xx status.
C20_InvalidKeyClientError ==
    request.called
    => /\ (request.args.scale # <<>>
           /\ request.args.scale \notin RecognisedKeys)
          => response.status_code \in 400..499
       /\ (NotationFormatValue(lower(request.args.format)).raised
           /\ request.args.scale \in RecognisedKeys \cup {<<>>})
          => response.status_code \in 400..499

\* what a call returns when it runs alone on the list ns
Alone(call, ns) ==
    CASE call.op = "transpose_notes"
           -> transpose_notes(ns, call.from_key, call.to_key, call.mode).value
      [] call.op = "convert_to_sargam"
           -> convert_to_sargam(ns, call.style, <<"C">>)
      [] call.op = "convert_to_western" -> convert_to_western(ns)
      [] call.op = "convert_to_alphabetical" -> convert_to_alphabetical(ns)

\* C21: however the iterations of concurrent calls of transpose_notes and of
\* the three converters on one note list interleave, the list and its note
\* records stay as they were given, and every call returns what it returns
\* when it runs alone on that list.
C21_ConcurrentCallsIsolated ==
    /\ shared = shared0
    /\ \A t \in Threads :
          threads[t].pc = "done"
          => threads[t].result = Alone(threads[t].call, shared0)

\* C21 witness: on the list A0, empty pitch, a transposition from C to B and
\* a Sargam conversion have both returned, the transposition with G#1 first.
C21_Witness ==
    /\ shared0 = Batch(<<1, 4>>)
    /\ threads[1].pc = "done"
    /\ threads[1].call.op = "transpose_notes"
    /\ threads[1].result[1].pitch = <<"G", "#", "1">>
    /\ threads[2].pc = "done"
    /\ threads[2].call.op = "convert_to_sargam"
    /\ Len(threads[2].result) = 1

\* a note whose pitchMidi is (octave + 1) * 12 + chromatic offset of its pitch
Consistent(note) ==
    /\ "pitch" \in DOMAIN note
    /\ "pitchMidi" \in DOMAIN note
    /\ \E k \in 1..12, o \in (MinOctave - MaxCalls)..(MaxOctave + MaxCalls) :
          /\ note.pitch = SharpNames[k] \o str(o)
          /\ note.pitchMidi = (o + 1) * 12 + (k - 1)

\* C22: if every note of a batch starts with pitchMidi = (octave + 1) * 12 +
\* chromatic offset of its pitch string, then every note satisfies the
\* equation after any sequence of transpose_notes calls with valid keys.
C22_PitchMidiConsistent ==
    (/\ \A i \in 1..Len(notes0) : Consistent(notes0[i])
     /\ \A c \in 1..Len(calls) : /\ calls[c].from_key \in RecognisedKeys
                                  /\ calls[c].to_key \in RecognisedKeys)
    => /\ Len(notes) = Len(notes0)
       /\ \A i \in 1..Len(notes) : Consistent(notes[i])

\* C26: for every MIDI pitch number m in 0..127 the name _midi_to_note_name
\* makes of m is turned back into m by _note_name_to_midi, and
\* transpose_pitch and the converters parse the name as class m mod 12 and
\* octave m div 12 - 1.
C26_MidiRoundTrip ==
    /\ midi_step = 2 => midi_back = [raised |-> FALSE, value |-> midi_pitch]
    /\ midi_step >= 1
       => \A parsed \in {parse_pitch(midi_name), sargam_parse(midi_name),
                          western_parse(midi_name)} :
             /\ parsed.ok
             /\ parsed.note_name = NOTE_NAMES[(midi_pitch % 12) + 1]
             /\ parsed.octave = (midi_pitch \div 12) - 1

\* C27: for every valid pitch p and all a, b, transposing p by a and the
\* result by b gives what transposing p by a + b gives; and transposing a
\* sharp-spelled valid pitch by 0 gives the pitch itself.
C27_ComposesAdditively ==
    pitch0 \in ValidPitches
    => /\ Len(deltas) = 2
          => pitch = transpose_pitch(pitch0, deltas[1] + deltas[2])
       /\ (Len(deltas) = 1 /\ deltas[1] = 0) => pitch = pitch0

\* the class and the octave transpose_pitch computes for a pitch it parses
Computed(p, n) ==
    LET parsed == parse_pitch(p)
        w == wrap(key_pos(_normalize_key(parsed.note_name)) + n, 0)
    IN  [class |-> w.new_pos, octave |-> parsed.octave + w.octave_change]

\* C28: for every valid pitch p and every n, the string transpose_pitch(p, n)
\* returns is parsed by transpose_pitch, convert_to_sargam and
\* convert_to_western as the class and octave transpose_pitch computed, and
\* its Sargam rendering is the symbol of that class with the marker of that
\* octave.
C28_OutputReadable ==
    (/\ pitch0 \in ValidPitches
     /\ Len(deltas) = 1
     /\ parse_pitch(pitch0).ok
     /\ key_pos(_normalize_key(parse_pitch(pitch0).note_name)) # NotFound)
    => LET c == Computed(pitch0, deltas[1])
       IN  /\ \A parsed \in {parse_pitch(pitch), sargam_parse(pitch),
                              western_parse(pitch)} :
                 /\ parsed.ok
                 /\ parsed.note_name = NOTE_NAMES[c.class + 1]
                 /\ parsed.octave = c.octave
           /\ convert_to_sargam(<<[pitch |-> pitch]>>, "hindustani", <<"C">>)
                = <<[note |-> octave_marked(HINDUSTANI_SARGAM_MAP[c.class + 1],
                                            c.octave),
                     startTime |-> 0, duration |-> 0, velocity |-> 64]>>
           /\ convert_to_sargam(<<[pitch |-> pitch]>>, "carnatic", <<"C">>)
                = <<[note |-> octave_marked(CARNATIC_SARGAM_MAP[c.class + 1],
                                            c.octave),
                     startTime |-> 0, duration |-> 0, velocity |-> 64]>>

\* the register of an octave, and the octaves a one-digit octave can be
Register(octave) ==
    IF octave < 4 THEN "below" ELSE IF octave > 4 THEN "above" ELSE "equal"

DigitOctaves == 0..9

\* the symbols a style has for the 12 classes in the 3 registers
Symbols(style) ==
    {octave_marked(TableOf(style)[k], o) : k \in 1..12, o \in {3, 4, 5}}

\* the combinations of class and register whose symbol is sym
Recovered(style, sym) ==
    {c \in (1..12) \X {"below", "equal", "above"} :
        \E o \in DigitOctaves :
            /\ Register(o) = c[2]
            /\ octave_marked(TableOf(style)[c[1]], o) = sym}

C30_WesternDecomposition ==
    ccall.op = "convert_to_western"
    => \A j \in 1..Len(cret.notes) :
          LET entry == cret.notes[j]
          IN  /\ entry.noteName \o str(entry.octave) = entry.pitch
              /\ index(NOTE_NAMES, entry.noteName) # NotFound

\* a request the handler lets through to the conversion: the transcription
\* exists, the caller may read it, it has notes, and the scale and the format
\* are ones the services know
Served ==
    /\ request.called
    /\ request.args.exists
    /\ request.args.owner \/ (request.args.song_exists /\ request.args.is_public)
    /\ request.args.notes # <<>>
    /\ request.args.scale \in RecognisedKeys \cup {<<>>}
    /\ ~NotationFormatValue(lower(request.args.format)).raised

\* the song's recorded original key, and the notes the conversion is to be
\* given: the stored notes transposed to the scale when a scale is given and
\* differs from the original key, the stored notes otherwise
RecordedKey ==
    IF request.args.song_exists THEN request.args.original_key ELSE <<"C">>

NotesToConvert ==
    IF request.args.scale # <<>> /\ request.args.scale # RecordedKey
    THEN transpose_notes(request.args.notes, RecordedKey, request.args.scale,
                         "major").value
    ELSE request.args.notes

\* C25: get_transcription transposes if and only if a scale is given and
\* differs from the song's original key, converts after transposing, so that
\* the notes it returns are the conversion of the transposed notes, and
\* returns the stored chords unchanged in both cases.
C25_TransposeThenConvert ==
    Served
    => LET style == SargamStyleValue(lower(request.args.sargam_style))
           converted ==
               convert_notes(NotesToConvert,
                             NotationFormatValue(lower(request.args.format)).value,
                             IF style.raised THEN "hindustani" ELSE style.value)
       IN  /\ response.status_code = HTTP_200_OK
           /\ response.notes = converted.value.notes
           /\ response.chords = request.args.chords

\* the number of jobs accepted in the 24 hours that end at time t
AcceptedIn24h(t) ==
    Cardinality({i \in 1..Len(accepted) :
                    t - DayHours < accepted[i] /\ accepted[i] <= t})

\* C23: whatever the interleaving of the user's requests, at most 10 jobs of
\* the user are accepted in any 24-hour window.
C23_DailyLimit ==
    \A i \in 1..Len(accepted) :
        AcceptedIn24h(accepted[i]) <= rate_limit_transcriptions_per_day

\* the user's jobs that are queued or processing
Unfinished == {j \in DOMAIN jobs : jobs[j] \in {"queued", "processing"}}

\* C24: the user never has more than 2 jobs queued or processing, jobs that
\* completed or failed not counted, and a request that reaches the check of
\* the concurrent jobs while 2 jobs are unfinished is rejected.
C24_ConcurrencyLimit ==
    /\ [](Cardinality(Unfinished) <= rate_limit_max_concurrent_jobs)
    /\ [][\A h \in Handlers :
            (/\ handlers[h].pc = "rate_checked"
             /\ handlers'[h].pc # "rate_checked"
             /\ Cardinality(Unfinished) >= rate_limit_max_concurrent_jobs)
            => /\ handlers'[h].pc = "idle"
               /\ handlers'[h].status_code \in 400..599]_vars

====
